---- MODULE Spec2Model ----
(***************************************************************************)
(* State-machine model of the bootstrap orchestrator xtask/src/main.rs:    *)
(* the four subcommands, the linker stage (setup_linker), the compiler     *)
(* stage (setup_compiler) with its submodule reconciliation, and the       *)
(* downstream build (build_project).  The disk (cache directory, the two   *)
(* checkouts, the nested submodule, the two generated config files) and    *)
(* the toolchain registry are the external state the program acts on.      *)
(* Every external command is one step whose exit status is drawn from the  *)
(* outcomes the collaborator tool can produce in the current disk state.   *)
(***************************************************************************)
EXTENDS Integers, Sequences, FiniteSets, TLC

\* ---------------------------------------------------------------- bounds
\* Number of distinct locations the platform cache root can resolve to.
NumRoots == 2

\* ------------------------------------------------------- program constants
RUST_REPO == "https://github.com/blueshift-gg/rust"
RUST_BRANCH == "BPF_i128_ret"
LLVM_REPO == "https://github.com/blueshift-gg/llvm-project.git"
LINKER_REPO == "https://github.com/blueshift-gg/sbpf-linker"
LINKER_BRANCH == "u128_mul_libcall"
TOOLCHAIN_NAME == "stage1"

\* Branch the submodule is force-checked-out to (main.rs line 215).
LLVM_BRANCH == "BPF_i128_ret"

\* ------------------------------------------------------------ value sets
Roots == 1..NumRoots
Commands == {"setup", "build-linker", "build-compiler", "build"}
\* exit status of a child process as the orchestrator sees it:
\*   "ok" = exit 0, "nonzero" = exit status other than 0,
\*   "nospawn" = the process could not be started (io::Error from status()).
Outcomes == {"ok", "nonzero", "nospawn"}
\* a filesystem call either succeeds or returns an io::Error
FsOutcomes == {"ok", "ioerr"}
\* URLs the .gitmodules entry of src/llvm-project can hold ("" = no entry)
Urls == {"", "https://github.com/rust-lang/llvm-project.git", LLVM_REPO}

VARIABLES
    \* ---- the running process
    pc,                 \* position of the process in main / the stage functions
    cmd,                \* cli.command of the current (or last) run
    exit,               \* "none" while running or before any run, "ok", "fail", "killed"
    err,                \* the anyhow error returned to main: <<context, label>>
    trace,              \* external actions performed in this run, in order
    llvm_submodule_url, \* local of setup_compiler (line 173)
    \* ---- environment of the process
    cacheRoot,          \* what dirs::cache_dir() resolves to
    \* ---- disk: cache directory and linker checkout
    cacheDir,           \* base_dir exists
    linkerDir,          \* "absent", "partial", "complete"
    linkerBranch,       \* branch of the linker checkout ("" when none)
    cargoConfig,        \* content of <project_root>/.cargo/config.toml
    \* ---- disk: compiler checkout and its submodule
    rustDir,            \* "absent", "partial", "complete"
    rustBranch,         \* branch of the compiler checkout
    url,                \* submodule.src/llvm-project.url in .gitmodules
    modulesDir,         \* .git/modules/src/llvm-project exists
    llvmDir,            \* src/llvm-project: "absent", "empty", "partial", "complete"
    subBranch,          \* branch of the submodule work tree: "", "detached", "other", LLVM_BRANCH
    subCommit,          \* commit checked out in the submodule: "", "old", "tip"
    idxPtr,             \* submodule pointer recorded in the outer index
    headPtr,            \* submodule pointer recorded in the outer HEAD commit
    modsStaged,         \* .gitmodules staged with a change against HEAD
    bootstrap,          \* content of rust-compiler/bootstrap.toml: "absent", "generated", "user"
    toolchains,         \* names registered with rustup by toolchain link
    \* ---- history (not read by the program)
    snap,               \* disk facts as they were when the current run started
    prev,               \* summary of the run before the current one
    faulted             \* a tool or filesystem call failed in this run although it could have succeeded

proc == <<pc, cmd, exit, err, trace, llvm_submodule_url>>
linkerDisk == <<linkerDir, linkerBranch>>
subDisk == <<url, modulesDir, llvmDir, subBranch, subCommit, idxPtr, headPtr, modsStaged>>
rustDisk == <<rustDir, rustBranch, subDisk, bootstrap>>
hist == <<snap, prev, faulted>>
vars == <<proc, cacheRoot, cacheDir, linkerDisk, cargoConfig, rustDisk, toolchains, hist>>

\* ------------------------------------------------------- path helpers
\* cache_dir(): platform cache root joined with the fixed subdirectory
cache_dir(root) == <<root, "u128-bpf-toolchain">>
\* linker_bin = base_dir.join("sbpf-linker").join("target/release/sbpf-linker")
linker_bin(root) == cache_dir(root) \o <<"sbpf-linker", "target/release/sbpf-linker">>

\* config_content = format!(template, linker_bin.display())
config_content(bin) == [kind |-> "generated", linker |-> bin]
NoConfig == [kind |-> "absent", linker |-> <<>>]

NoError == <<"", "">>

\* No run is known to have preceded the current one in the same environment.
NoPrev == [cmd |-> "none", end |-> "none"]

\* -------------------------------------------------------------- Init
\* Before the first run: nothing of the toolchain is on disk.
Init ==
    /\ pc = "idle" /\ cmd = "none" /\ exit = "none" /\ err = NoError
    /\ trace = <<>> /\ llvm_submodule_url = ""
    /\ cacheRoot = 1
    /\ cacheDir = FALSE
    /\ linkerDir = "absent" /\ linkerBranch = ""
    /\ cargoConfig = NoConfig
    /\ rustDir = "absent" /\ rustBranch = ""
    /\ url = "" /\ modulesDir = FALSE /\ llvmDir = "absent"
    /\ subBranch = "" /\ subCommit = "" /\ idxPtr = "" /\ headPtr = ""
    /\ modsStaged = FALSE
    /\ bootstrap = "absent"
    /\ toolchains = {}
    /\ snap = [fresh |-> TRUE, bootstrap |-> "absent", cargoConfig |-> NoConfig]
    /\ prev = NoPrev
    /\ faulted = FALSE

\* ------------------------------------------------- the Process Runner
\* One entry of the run's log of external actions.
Event(act, rc) == [act |-> act, rc |-> rc]

\* Exit statuses a tool can produce: a tool that cannot succeed in the
\* current disk state (doomed) never exits 0.
Rcs(doomed) == IF doomed THEN Outcomes \ {"ok"} ELSE Outcomes

\* History only: a failure where the disk state allowed success (sound).
Fault(rc, sound) == faulted' = (faulted \/ (rc # "ok" /\ sound))

\* `?` on an Err: the error reaches main, which returns it; the process
\* exits with failure status.
Bail(e) == pc' = "done" /\ exit' = "fail" /\ err' = e

\* Variant of run_command that does not inspect the exit status.
run_command_ignores_status(description, rc, next) ==
    /\ trace' = Append(trace, Event(description, rc))
    /\ IF rc # "nospawn"
         THEN pc' = next /\ exit' = exit /\ err' = err
         ELSE Bail(<<"failed to run", description>>)

\* Variant of run_command that starts the failed command again.
run_command_retries(description, rc, next) ==
    /\ trace' = Append(trace, Event(description, rc))
    /\ pc' = (IF rc = "ok" THEN next ELSE pc)
    /\ exit' = exit /\ err' = err

\* run_command(cmd, description): status() failing to start the child is
\* "failed to run: <description>", a nonzero exit is
\* "command failed: <description>", exit 0 continues at `next`.
run_command(description, rc, next) ==
    /\ trace' = Append(trace, Event(description, rc))
    /\ IF rc = "ok"
         THEN pc' = next /\ exit' = exit /\ err' = err
         ELSE Bail(<<IF rc = "nospawn" THEN "failed to run" ELSE "command failed",
                     description>>)

\* A std::fs call followed by `?`, with the .context(..) text the code
\* attaches ("" when it attaches none).
fs_call(act, rc, context, next) ==
    /\ trace' = Append(trace, Event(act, rc))
    /\ IF rc = "ok"
         THEN pc' = next /\ exit' = exit /\ err' = err
         ELSE Bail(<<context, "io error">>)

\* A branch of the code that performs no external action.
Goto(next) == pc' = next /\ UNCHANGED <<exit, err, trace>>

\* ------------------------------------------------------------- main
\* Variant of the dispatch in which setup runs the compiler stage first.
FirstStep_compiler_first(c) ==
    CASE c = "setup" -> "c_mkdir"
      [] c = "build-linker" -> "l_mkdir"
      [] c = "build-compiler" -> "c_mkdir"
      [] c = "build" -> "b_build"

\* main: dispatch on cli.command (lines 38-61).
FirstStep(c) ==
    CASE c = "setup" -> "l_mkdir"
      [] c = "build-linker" -> "l_mkdir"
      [] c = "build-compiler" -> "c_mkdir"
      [] c = "build" -> "b_build"

\* Variant in which setup returns after the linker stage.
AfterLinker_stop == "exit_ok"

\* Variant in which every return of setup_linker leads to setup_compiler.
AfterLinker_always_compiler == "c_mkdir"

\* Where main continues when setup_linker returns Ok (lines 40-41, 53).
AfterLinker == IF cmd = "setup" THEN "c_mkdir" ELSE "exit_ok"

LastAct == IF trace = <<>> THEN "" ELSE trace[Len(trace)].act
LastRc == IF trace = <<>> THEN "" ELSE trace[Len(trace)].rc

\* The steps of the submodule reconciliation (lines 171-243).
ReconcileActs ==
    {"remove submodule metadata", "remove submodule worktree", "add llvm submodule",
     "update llvm submodule", "checkout LLVM BPF_i128_ret branch",
     "stage llvm submodule", "commit llvm submodule update"}

\* History only: the operator changed the environment after the last run.
Changed == [cmd |-> "none", end |-> "changed"]

\* History only: what is remembered of the run that just ended, for the
\* runs that follow a complete setup, a termination in the middle of a
\* clone, or an abort inside the reconciliation.
Remembered ==
    CASE pc # "done" \/ prev = Changed -> NoPrev
      [] exit = "ok" /\ cmd = "setup" -> [cmd |-> cmd, end |-> "ok"]
      [] exit = "killed" /\ LastRc = "killed" -> [cmd |-> cmd, end |-> "killed in clone"]
      [] exit = "fail" /\ LastAct \in ReconcileActs -> [cmd |-> cmd, end |-> "fail in reconcile"]
      [] OTHER -> NoPrev

\* The operator starts a run of one subcommand.
Start(c) ==
    /\ pc \in {"idle", "done"}
    /\ pc' = FirstStep(c) /\ cmd' = c /\ exit' = "none" /\ err' = NoError
    /\ trace' = <<>> /\ llvm_submodule_url' = ""
    /\ snap' = [fresh |-> ~cacheDir, bootstrap |-> bootstrap, cargoConfig |-> cargoConfig]
    /\ prev' = Remembered
    /\ faulted' = FALSE
    /\ UNCHANGED <<cacheRoot, cacheDir, linkerDisk, cargoConfig, rustDisk, toolchains>>

\* main returns Ok(()): exit status zero (lines 42-50, 63).
main_ok ==
    /\ pc = "exit_ok"
    /\ pc' = "done" /\ exit' = "ok"
    /\ UNCHANGED <<cmd, err, trace, llvm_submodule_url, cacheRoot, cacheDir, linkerDisk,
                   cargoConfig, rustDisk, toolchains, hist>>

\* ----------------------------------------------------- setup_linker
\* std::fs::create_dir_all(&base_dir)? (line 94)
setup_linker_mkdir ==
    /\ pc = "l_mkdir"
    /\ \E rc \in FsOutcomes :
         /\ fs_call("create cache dir", rc, "", "l_clone")
         /\ cacheDir' = (cacheDir \/ rc = "ok")
         /\ Fault(rc, TRUE)
    /\ UNCHANGED <<cmd, llvm_submodule_url, cacheRoot, linkerDisk, cargoConfig, rustDisk,
                   toolchains, snap, prev>>

\* git clone --branch LINKER_BRANCH LINKER_REPO linker_dir: a clone that
\* exits 0 leaves a complete checkout on the branch; one that fails
\* leaves nothing, or the directory without a checked-out tree.
CloneLinkerEffect(rc) ==
    IF rc = "ok"
      THEN linkerDir' = "complete" /\ linkerBranch' = LINKER_BRANCH
      ELSE /\ linkerDir' \in (IF rc = "nospawn" THEN {"absent"} ELSE {"absent", "partial"})
           /\ linkerBranch' = ""

\* Variant of the linker clone step without the existence check.
setup_linker_clone_always ==
    /\ pc = "l_clone"
    /\ \E rc \in Rcs(FALSE) :
         /\ run_command("clone sbpf-linker", rc, "l_build")
         /\ CloneLinkerEffect(rc)
         /\ Fault(rc, TRUE)
    /\ UNCHANGED <<cmd, llvm_submodule_url, cacheRoot, cacheDir, cargoConfig, rustDisk,
                   toolchains, snap, prev>>

\* if linker_dir.exists() { skip } else { run_command(git clone ..)? } (lines 98-107)
setup_linker_clone ==
    /\ pc = "l_clone"
    /\ IF linkerDir # "absent"
         THEN Goto("l_build") /\ UNCHANGED <<linkerDisk, faulted>>
         ELSE \E rc \in Rcs(FALSE) :
                /\ run_command("clone sbpf-linker", rc, "l_build")
                /\ CloneLinkerEffect(rc)
                /\ Fault(rc, TRUE)
    /\ UNCHANGED <<cmd, llvm_submodule_url, cacheRoot, cacheDir, cargoConfig, rustDisk,
                   toolchains, snap, prev>>

\* Variant of the linker build whose exit status is not inspected.
setup_linker_build_unchecked ==
    /\ pc = "l_build"
    /\ \E rc \in Rcs(linkerDir # "complete") :
         /\ run_command_ignores_status("build sbpf-linker", rc, "l_mkcargo")
         /\ Fault(rc, linkerDir = "complete")
    /\ UNCHANGED <<cmd, llvm_submodule_url, cacheRoot, cacheDir, linkerDisk, cargoConfig,
                   rustDisk, toolchains, snap, prev>>

\* cargo build --release in linker_dir (lines 111-116): cannot succeed
\* unless the checkout is complete.
setup_linker_build ==
    /\ pc = "l_build"
    /\ \E rc \in Rcs(linkerDir # "complete") :
         /\ run_command("build sbpf-linker", rc, "l_mkcargo")
         /\ Fault(rc, linkerDir = "complete")
    /\ UNCHANGED <<cmd, llvm_submodule_url, cacheRoot, cacheDir, linkerDisk, cargoConfig,
                   rustDisk, toolchains, snap, prev>>

\* std::fs::create_dir_all(&cargo_config_dir)? (line 121)
setup_linker_mkcargo ==
    /\ pc = "l_mkcargo"
    /\ \E rc \in FsOutcomes :
         /\ fs_call("create .cargo dir", rc, "", "l_write")
         /\ Fault(rc, TRUE)
    /\ UNCHANGED <<cmd, llvm_submodule_url, cacheRoot, cacheDir, linkerDisk, cargoConfig,
                   rustDisk, toolchains, snap, prev>>

\* Variant of the linker config step that writes only when the file is absent.
setup_linker_write_if_absent ==
    /\ pc = "l_write"
    /\ IF cargoConfig = NoConfig
         THEN \E rc \in FsOutcomes :
                /\ fs_call("write .cargo/config.toml", rc,
                           "failed to write .cargo/config.toml", AfterLinker)
                /\ cargoConfig' = IF rc = "ok" THEN config_content(linker_bin(cacheRoot))
                                               ELSE cargoConfig
                /\ Fault(rc, TRUE)
         ELSE /\ fs_call("write .cargo/config.toml", "ok",
                         "failed to write .cargo/config.toml", AfterLinker)
              /\ UNCHANGED <<cargoConfig, faulted>>
    /\ UNCHANGED <<cmd, llvm_submodule_url, cacheRoot, cacheDir, linkerDisk, rustDisk,
                   toolchains, snap, prev>>

\* std::fs::write(.cargo/config.toml, config_content).context(..)? and
\* return Ok(()) (lines 123-147)
setup_linker_write ==
    /\ pc = "l_write"
    /\ \E rc \in FsOutcomes :
         /\ fs_call("write .cargo/config.toml", rc, "failed to write .cargo/config.toml",
                    AfterLinker)
         /\ cargoConfig' = IF rc = "ok" THEN config_content(linker_bin(cacheRoot))
                                        ELSE cargoConfig
         /\ Fault(rc, TRUE)
    /\ UNCHANGED <<cmd, llvm_submodule_url, cacheRoot, cacheDir, linkerDisk, rustDisk,
                   toolchains, snap, prev>>

\* --------------------------------------------------- setup_compiler
\* std::fs::create_dir_all(&base_dir)? (line 156)
setup_compiler_mkdir ==
    /\ pc = "c_mkdir"
    /\ \E rc \in FsOutcomes :
         /\ fs_call("create cache dir", rc, "", "c_clone")
         /\ cacheDir' = (cacheDir \/ rc = "ok")
         /\ Fault(rc, TRUE)
    /\ UNCHANGED <<cmd, llvm_submodule_url, cacheRoot, linkerDisk, cargoConfig, rustDisk,
                   toolchains, snap, prev>>

\* git clone --branch RUST_BRANCH RUST_REPO rust_dir (without --recursive):
\* exit 0 leaves a complete checkout on the branch, whose .gitmodules names
\* whatever URL upstream committed (u), whose committed submodule pointer is
\* whatever upstream committed (p), and an empty src/llvm-project directory.
CloneRustEffect(rc, u, p) ==
    IF rc = "ok"
      THEN /\ rustDir' = "complete" /\ rustBranch' = RUST_BRANCH
           /\ url' = u /\ llvmDir' = "empty"
           /\ idxPtr' = p /\ headPtr' = p
      ELSE /\ rustDir' \in (IF rc = "nospawn" THEN {"absent"} ELSE {"absent", "partial"})
           /\ rustBranch' = ""
           /\ url' = "" /\ llvmDir' = "absent"
           /\ idxPtr' = "" /\ headPtr' = ""

\* Variant of the compiler clone step without the existence check.
setup_compiler_clone_always ==
    /\ pc = "c_clone"
    /\ \E rc \in Rcs(FALSE), u \in Urls, p \in {"old", "tip"} :
         /\ run_command("clone rust compiler", rc, "c_url")
         /\ CloneRustEffect(rc, u, p)
         /\ Fault(rc, TRUE)
         /\ modulesDir' = FALSE /\ subBranch' = "" /\ subCommit' = ""
         /\ modsStaged' = FALSE /\ bootstrap' = "absent"
    /\ UNCHANGED <<cmd, llvm_submodule_url, cacheRoot, cacheDir, linkerDisk, cargoConfig,
                   toolchains, snap, prev>>

\* if rust_dir.exists() { skip } else { run_command(git clone ..)? } (lines 160-169)
setup_compiler_clone ==
    /\ pc = "c_clone"
    /\ IF rustDir # "absent"
         THEN Goto("c_url") /\ UNCHANGED <<rustDisk, faulted>>
         ELSE \E rc \in Rcs(FALSE), u \in Urls, p \in {"old", "tip"} :
                /\ run_command("clone rust compiler", rc, "c_url")
                /\ CloneRustEffect(rc, u, p)
                /\ Fault(rc, TRUE)
                /\ modulesDir' = FALSE /\ subBranch' = "" /\ subCommit' = ""
                /\ modsStaged' = FALSE /\ bootstrap' = "absent"
    /\ UNCHANGED <<cmd, llvm_submodule_url, cacheRoot, cacheDir, linkerDisk, cargoConfig,
                   toolchains, snap, prev>>

\* get_submodule_url (lines 301-314): output() failing to start git is the
\* only error; the exit status is not inspected and the trimmed stdout is
\* returned.  git config prints the value and exits 0 when the key is set;
\* it prints nothing and exits nonzero when it is not (or on any error).
get_submodule_url(rc) == IF rc = "ok" THEN url ELSE ""

\* Variant of the state choice with the comparison inverted.
setup_compiler_url_inverted ==
    /\ pc = "c_url"
    /\ \E rc \in Rcs(url = "") :
         /\ trace' = Append(trace, Event("query submodule url", rc))
         /\ Fault(rc, rc = "nospawn" \/ url # "")
         /\ IF rc = "nospawn"
              THEN Bail(<<"failed to get submodule url", "io error">>)
                   /\ UNCHANGED llvm_submodule_url
              ELSE /\ llvm_submodule_url' = get_submodule_url(rc)
                   /\ pc' = IF get_submodule_url(rc) # LLVM_REPO THEN "c_updateA"
                                                                ELSE "c_rm_modules"
                   /\ UNCHANGED <<exit, err>>
    /\ UNCHANGED <<cmd, cacheRoot, cacheDir, linkerDisk, cargoConfig, rustDisk,
                   toolchains, snap, prev>>

\* Variant of the URL query that takes a nonzero exit of git config as a
\* fatal error.
setup_compiler_url_status_checked ==
    /\ pc = "c_url"
    /\ \E rc \in Rcs(url = "") :
         /\ run_command("query submodule url", rc,
                        IF url = LLVM_REPO THEN "c_updateA" ELSE "c_rm_modules")
         /\ Fault(rc, rc = "nospawn" \/ url # "")
         /\ llvm_submodule_url' = IF rc = "ok" THEN url ELSE llvm_submodule_url
    /\ UNCHANGED <<cmd, cacheRoot, cacheDir, linkerDisk, cargoConfig, rustDisk,
                   toolchains, snap, prev>>

\* let llvm_submodule_url = get_submodule_url(..)?;
\* if llvm_submodule_url == LLVM_REPO { State A } else { State B } (lines 173-184)
setup_compiler_url ==
    /\ pc = "c_url"
    /\ \E rc \in Rcs(url = "") :
         /\ trace' = Append(trace, Event("query submodule url", rc))
         /\ Fault(rc, rc = "nospawn" \/ url # "")
         /\ IF rc = "nospawn"
              THEN Bail(<<"failed to get submodule url", "io error">>)
                   /\ UNCHANGED llvm_submodule_url
              ELSE /\ llvm_submodule_url' = get_submodule_url(rc)
                   /\ pc' = IF get_submodule_url(rc) = LLVM_REPO THEN "c_updateA"
                                                                ELSE "c_rm_modules"
                   /\ UNCHANGED <<exit, err>>
    /\ UNCHANGED <<cmd, cacheRoot, cacheDir, linkerDisk, cargoConfig, rustDisk,
                   toolchains, snap, prev>>

\* if modules_dir.exists() { std::fs::remove_dir_all(&modules_dir)?; } (lines 186-189)
setup_compiler_rm_modules ==
    /\ pc = "c_rm_modules"
    /\ IF modulesDir
         THEN \E rc \in FsOutcomes :
                /\ fs_call("remove submodule metadata", rc, "", "c_rm_llvm")
                /\ modulesDir' = (rc # "ok")
                /\ Fault(rc, TRUE)
         ELSE Goto("c_rm_llvm") /\ UNCHANGED <<modulesDir, faulted>>
    /\ UNCHANGED <<cmd, llvm_submodule_url, cacheRoot, cacheDir, linkerDisk, cargoConfig,
                   rustDir, rustBranch, url, llvmDir, subBranch, subCommit, idxPtr,
                   headPtr, modsStaged, bootstrap, toolchains, snap, prev>>

\* if llvm_dir.exists() { std::fs::remove_dir_all(&llvm_dir)?; } (lines 190-193):
\* a removal that fails may have removed part of the tree.
setup_compiler_rm_llvm ==
    /\ pc = "c_rm_llvm"
    /\ IF llvmDir # "absent"
         THEN \E rc \in FsOutcomes, part \in BOOLEAN :
                /\ fs_call("remove submodule worktree", rc, "", "c_add")
                /\ Fault(rc, TRUE)
                /\ IF rc = "ok" \/ part
                     THEN /\ llvmDir' = IF rc = "ok" THEN "absent" ELSE "partial"
                          /\ subBranch' = "" /\ subCommit' = ""
                     ELSE UNCHANGED <<llvmDir, subBranch, subCommit>>
         ELSE Goto("c_add") /\ UNCHANGED <<llvmDir, subBranch, subCommit, faulted>>
    /\ UNCHANGED <<cmd, llvm_submodule_url, cacheRoot, cacheDir, linkerDisk, cargoConfig,
                   rustDir, rustBranch, url, modulesDir, idxPtr, headPtr, modsStaged,
                   bootstrap, toolchains, snap, prev>>

\* git submodule add -f LLVM_REPO src/llvm-project: exit 0 means the fork
\* was cloned into the path (its default branch checked out, at commit c,
\* which is not the tip of the required branch),
\* the .gitmodules entry set to LLVM_REPO, and .gitmodules and the pointer
\* staged.  A failed add may leave a partial clone behind.
SubmoduleAddEffect(rc, c, part) ==
    IF rc = "ok"
      THEN /\ url' = LLVM_REPO /\ modulesDir' = TRUE /\ llvmDir' = "complete"
           /\ subBranch' = "other" /\ subCommit' = c
           /\ idxPtr' = c /\ modsStaged' = TRUE
      ELSE /\ IF part /\ rc = "nonzero"
                THEN modulesDir' = TRUE /\ llvmDir' = "partial"
                ELSE UNCHANGED <<modulesDir, llvmDir>>
           /\ UNCHANGED <<url, subBranch, subCommit, idxPtr, modsStaged>>

\* The add cannot succeed outside a repository, nor onto a path holding
\* something that is not a repository.
AddDoomed == rustDir # "complete" \/ llvmDir = "partial"

\* run_command(git submodule add -f ..)? (lines 196-201)
setup_compiler_add ==
    /\ pc = "c_add"
    /\ \E rc \in Rcs(AddDoomed), part \in BOOLEAN :
         /\ run_command("add llvm submodule", rc, "c_updateB")
         /\ SubmoduleAddEffect(rc, "old", part)
         /\ Fault(rc, ~AddDoomed)
    /\ UNCHANGED <<cmd, llvm_submodule_url, cacheRoot, cacheDir, linkerDisk, cargoConfig,
                   rustDir, rustBranch, headPtr, bootstrap, toolchains, snap, prev>>

\* git submodule update --init --recursive src/llvm-project: exit 0 means
\* the submodule is initialised and its work tree is at the pointer the
\* outer index records (detached, unless it was there already).
SubmoduleUpdateEffect(rc, part) ==
    IF rc = "ok"
      THEN /\ modulesDir' = TRUE /\ llvmDir' = "complete"
           /\ IF llvmDir = "complete" /\ subCommit = idxPtr
                THEN UNCHANGED <<subBranch, subCommit>>
                ELSE subBranch' = "detached" /\ subCommit' = idxPtr
      ELSE /\ IF part /\ rc = "nonzero" /\ llvmDir # "complete"
                THEN modulesDir' = TRUE /\ llvmDir' = "partial"
                ELSE UNCHANGED <<modulesDir, llvmDir>>
           /\ UNCHANGED <<subBranch, subCommit>>

UpdateSound == rustDir = "complete" /\ llvmDir # "partial" /\ url # ""

submodule_update(next) ==
    /\ \E rc \in Rcs(url = ""), part \in BOOLEAN :
         /\ run_command("update llvm submodule", rc, next)
         /\ SubmoduleUpdateEffect(rc, part)
         /\ Fault(rc, UpdateSound)
    /\ UNCHANGED <<cmd, llvm_submodule_url, cacheRoot, cacheDir, linkerDisk, cargoConfig,
                   rustDir, rustBranch, url, idxPtr, headPtr, modsStaged, bootstrap,
                   toolchains, snap, prev>>

\* Variant of State A that goes from the update straight to the staging.
setup_compiler_updateA_skip_checkout == pc = "c_updateA" /\ submodule_update("c_stage")

\* State A: run_command(git submodule update ..)? (lines 177-182)
setup_compiler_updateA == pc = "c_updateA" /\ submodule_update("c_checkout")

\* State B: run_command(git submodule update ..)? (lines 203-208)
setup_compiler_updateB == pc = "c_updateB" /\ submodule_update("c_checkout")

\* git checkout -B BPF_i128_ret origin/BPF_i128_ret in llvm_dir (lines 212-218):
\* the child cannot be started in a directory that does not exist, and
\* cannot succeed outside a repository.
setup_compiler_checkout ==
    /\ pc = "c_checkout"
    /\ \E rc \in (IF llvmDir = "absent" THEN {"nospawn"} ELSE Rcs(llvmDir # "complete")) :
         /\ run_command("checkout LLVM BPF_i128_ret branch", rc, "c_stage")
         /\ Fault(rc, llvmDir = "complete")
         /\ IF rc = "ok"
              THEN subBranch' = LLVM_BRANCH /\ subCommit' = "tip"
              ELSE UNCHANGED <<subBranch, subCommit>>
    /\ UNCHANGED <<cmd, llvm_submodule_url, cacheRoot, cacheDir, linkerDisk, cargoConfig,
                   rustDir, rustBranch, url, modulesDir, llvmDir, idxPtr, headPtr,
                   modsStaged, bootstrap, toolchains, snap, prev>>

\* The outer index differs from the last commit.
StagedDiff == idxPtr # headPtr \/ modsStaged

\* run_command(git add src/llvm-project)? (lines 222-227): exit 0 means the
\* index records the commit the submodule work tree is at.
setup_compiler_stage ==
    /\ pc = "c_stage"
    /\ \E rc \in Rcs(llvmDir # "complete") :
         /\ run_command("stage llvm submodule", rc, "c_diff")
         /\ Fault(rc, rustDir = "complete" /\ llvmDir = "complete")
         /\ idxPtr' = IF rc = "ok" THEN subCommit ELSE idxPtr
    /\ UNCHANGED <<cmd, llvm_submodule_url, cacheRoot, cacheDir, linkerDisk, cargoConfig,
                   rustDir, rustBranch, url, modulesDir, llvmDir, subBranch, subCommit,
                   headPtr, modsStaged, bootstrap, toolchains, snap, prev>>

\* Exit statuses of git diff --cached --quiet: 0 only when the index has no
\* diff against HEAD; nonzero when it has one, or when git itself fails.
DiffRcs == IF StagedDiff THEN {"nonzero", "nospawn"} ELSE Outcomes

\* Variant of the commit-if-needed step with the test inverted.
setup_compiler_diff_inverted ==
    /\ pc = "c_diff"
    /\ \E rc \in DiffRcs :
         /\ trace' = Append(trace, Event("diff staged", rc))
         /\ Fault(rc, rc = "nospawn" \/ ~StagedDiff)
         /\ IF rc = "nospawn"
              THEN Bail(<<"", "io error">>)
              ELSE /\ pc' = IF rc = "ok" THEN "c_commit" ELSE "c_cfg"
                   /\ UNCHANGED <<exit, err>>
    /\ UNCHANGED <<cmd, llvm_submodule_url, cacheRoot, cacheDir, linkerDisk, cargoConfig,
                   rustDisk, toolchains, snap, prev>>

\* let diff_status = Command::new("git").args(["diff","--cached","--quiet"]).status()?;
\* if !diff_status.success() { commit } else { no commit } (lines 229-243)
setup_compiler_diff ==
    /\ pc = "c_diff"
    /\ \E rc \in DiffRcs :
         /\ trace' = Append(trace, Event("diff staged", rc))
         /\ Fault(rc, rc = "nospawn" \/ ~StagedDiff)
         /\ IF rc = "nospawn"
              THEN Bail(<<"", "io error">>)
              ELSE /\ pc' = IF rc # "ok" THEN "c_commit" ELSE "c_cfg"
                   /\ UNCHANGED <<exit, err>>
    /\ UNCHANGED <<cmd, llvm_submodule_url, cacheRoot, cacheDir, linkerDisk, cargoConfig,
                   rustDisk, toolchains, snap, prev>>

\* run_command(git commit -m "TMP: update submodule to BPF_i128_ret")?
\* (lines 235-240): git commit exits nonzero when nothing is staged.
setup_compiler_commit ==
    /\ pc = "c_commit"
    /\ \E rc \in Rcs(~StagedDiff) :
         /\ run_command("commit llvm submodule update", rc, "c_cfg")
         /\ Fault(rc, StagedDiff)
         /\ IF rc = "ok"
              THEN headPtr' = idxPtr /\ modsStaged' = FALSE
              ELSE UNCHANGED <<headPtr, modsStaged>>
    /\ UNCHANGED <<cmd, llvm_submodule_url, cacheRoot, cacheDir, linkerDisk, cargoConfig,
                   rustDir, rustBranch, url, modulesDir, llvmDir, subBranch, subCommit,
                   idxPtr, bootstrap, toolchains, snap, prev>>

\* Variant of the bootstrap config step without the presence check.
setup_compiler_cfg_overwrite ==
    /\ pc = "c_cfg"
    /\ \E rc \in FsOutcomes :
         /\ fs_call("write bootstrap.toml", rc,
                    "failed to write rust-compiler/bootstrap.toml", "c_build")
         /\ bootstrap' = IF rc = "ok" THEN "generated" ELSE bootstrap
         /\ Fault(rc, TRUE)
    /\ UNCHANGED <<cmd, llvm_submodule_url, cacheRoot, cacheDir, linkerDisk, cargoConfig,
                   rustDir, rustBranch, subDisk, toolchains, snap, prev>>

\* if !config_path.exists() { std::fs::write(&config_path, config).context(..)?; }
\* (lines 249-266)
setup_compiler_cfg ==
    /\ pc = "c_cfg"
    /\ IF bootstrap = "absent"
         THEN \E rc \in FsOutcomes :
                /\ fs_call("write bootstrap.toml", rc,
                           "failed to write rust-compiler/bootstrap.toml", "c_build")
                /\ bootstrap' = IF rc = "ok" THEN "generated" ELSE bootstrap
                /\ Fault(rc, TRUE)
         ELSE Goto("c_build") /\ UNCHANGED <<bootstrap, faulted>>
    /\ UNCHANGED <<cmd, llvm_submodule_url, cacheRoot, cacheDir, linkerDisk, cargoConfig,
                   rustDir, rustBranch, subDisk, toolchains, snap, prev>>

\* run_command(./x build in rust_dir)? (lines 268-273): there is no ./x to
\* start unless the checkout is complete.
setup_compiler_build ==
    /\ pc = "c_build"
    /\ \E rc \in (IF rustDir = "complete" THEN Outcomes ELSE {"nospawn"}) :
         /\ run_command("build rust compiler", rc, "c_link")
         /\ Fault(rc, rustDir = "complete")
    /\ UNCHANGED <<cmd, llvm_submodule_url, cacheRoot, cacheDir, linkerDisk, cargoConfig,
                   rustDisk, toolchains, snap, prev>>

\* run_command(rustup toolchain link TOOLCHAIN_NAME stage_dir)? and
\* return Ok(()) (lines 277-286)
setup_compiler_link ==
    /\ pc = "c_link"
    /\ \E rc \in Outcomes :
         /\ run_command("link rustup toolchain", rc, "exit_ok")
         /\ Fault(rc, TRUE)
         /\ toolchains' = IF rc = "ok" THEN toolchains \cup {TOOLCHAIN_NAME} ELSE toolchains
    /\ UNCHANGED <<cmd, llvm_submodule_url, cacheRoot, cacheDir, linkerDisk, cargoConfig,
                   rustDisk, snap, prev>>

\* ----------------------------------------------------- build_project
\* run_command(cargo +stage1 build-bpf in project_root)? (lines 289-299):
\* cargo cannot select a toolchain that is not registered.
build_project ==
    /\ pc = "b_build"
    /\ \E rc \in Rcs(TOOLCHAIN_NAME \notin toolchains) :
         /\ run_command("build project", rc, "exit_ok")
         /\ Fault(rc, TOOLCHAIN_NAME \in toolchains)
    /\ UNCHANGED <<cmd, llvm_submodule_url, cacheRoot, cacheDir, linkerDisk, cargoConfig,
                   rustDisk, toolchains, snap, prev>>

\* ------------------------------------------------------ the operator
Running == pc \notin {"idle", "done"}

\* The operator terminates the process between two steps: nothing on disk
\* changes (spec section 5).
Terminate ==
    /\ Running
    /\ pc' = "done" /\ exit' = "killed"
    /\ UNCHANGED <<cmd, err, trace, llvm_submodule_url, cacheRoot, cacheDir, linkerDisk,
                   cargoConfig, rustDisk, toolchains, hist>>

\* The operator terminates the process in the middle of a clone: the child
\* dies with it and the checkout directory is left partially populated.
TerminateInClone ==
    /\ \/ /\ pc = "l_clone" /\ linkerDir = "absent"
          /\ trace' = Append(trace, Event("clone sbpf-linker", "killed"))
          /\ linkerDir' = "partial"
          /\ UNCHANGED <<linkerBranch, rustDisk>>
       \/ /\ pc = "c_clone" /\ rustDir = "absent"
          /\ trace' = Append(trace, Event("clone rust compiler", "killed"))
          /\ rustDir' = "partial"
          /\ UNCHANGED <<linkerDisk, rustBranch, subDisk, bootstrap>>
    /\ pc' = "done" /\ exit' = "killed"
    /\ UNCHANGED <<cmd, err, llvm_submodule_url, cacheRoot, cacheDir, cargoConfig,
                   toolchains, hist>>

\* No process is running and nothing of the last run is kept but the disk.
Forget ==
    /\ pc' = "idle" /\ cmd' = "none" /\ exit' = "none" /\ err' = NoError
    /\ trace' = <<>> /\ llvm_submodule_url' = ""
    /\ snap' = [fresh |-> ~cacheDir, bootstrap |-> "absent", cargoConfig |-> NoConfig]
    /\ prev' = Changed /\ faulted' = FALSE

\* Between runs the cache directory is moved to a location r it never had:
\* the cache root resolves to r, which holds what the old one held.
EnvRelocate(r) ==
    /\ ~Running /\ r > cacheRoot
    /\ cacheRoot' = r /\ Forget
    /\ UNCHANGED <<cacheDir, linkerDisk, cargoConfig, rustDisk, toolchains>>

\* Between runs the user hand-edits (or creates) rust-compiler/bootstrap.toml.
EnvEditBootstrap ==
    /\ ~Running /\ rustDir # "absent" /\ bootstrap # "user"
    /\ bootstrap' = "user" /\ Forget
    /\ UNCHANGED <<cacheRoot, cacheDir, linkerDisk, cargoConfig, rustDir, rustBranch,
                   subDisk, toolchains>>

Next ==
    \/ \E c \in Commands : Start(c)
    \/ main_ok
    \/ setup_linker_mkdir
    \/ setup_linker_clone
    \/ setup_linker_build
    \/ setup_linker_mkcargo
    \/ setup_linker_write
    \/ setup_compiler_mkdir
    \/ setup_compiler_clone
    \/ setup_compiler_url
    \/ setup_compiler_updateA
    \/ setup_compiler_rm_modules
    \/ setup_compiler_rm_llvm
    \/ setup_compiler_add
    \/ setup_compiler_updateB
    \/ setup_compiler_checkout
    \/ setup_compiler_stage
    \/ setup_compiler_diff
    \/ setup_compiler_commit
    \/ setup_compiler_cfg
    \/ setup_compiler_build
    \/ setup_compiler_link
    \/ build_project
    \/ Terminate
    \/ TerminateInClone
    \/ \E r \in Roots : EnvRelocate(r)
    \/ EnvEditBootstrap

Spec == Init /\ [][Next]_vars

\* ==================================================================
\* Properties
\* ==================================================================
Acts(t) == [i \in 1..Len(t) |-> t[i].act]
Performed(act) == \E i \in 1..Len(trace) : trace[i].act = act
Succeeded(act) == \E i \in 1..Len(trace) : trace[i] = Event(act, "ok")
LinkerCommands == {"setup", "build-linker"}
CompilerCommands == {"setup", "build-compiler"}

\* The two child processes that are not started through run_command.
UncheckedActs == {"query submodule url", "diff staged"}

\* The run has halted with failure at its i-th external action.
HaltedAt(i) == i = Len(trace) /\ pc = "done" /\ exit = "fail"

\* ------------------------------------------------------------ C1
\* C1 (as stated): whenever any external command of a run exits nonzero,
\* the submodule-URL query and the staged-diff check included, the run has
\* halted there: it is the last external action and the exit status is
\* failure.
C1_AnyNonzeroHalts ==
    \A i \in 1..Len(trace) : trace[i].rc = "nonzero" => HaltedAt(i)

\* C1 (amended): whenever a command started through run_command exits
\* nonzero, the run has halted there: it is the last external action of
\* the run and the exit status is failure.  The submodule-URL query and the
\* staged-diff check are excepted: the run goes on after their nonzero exit.
C1_LabeledNonzeroHalts ==
    \A i \in 1..Len(trace) :
        (trace[i].rc = "nonzero" /\ trace[i].act \notin UncheckedActs) => HaltedAt(i)

\* A run that went on after a nonzero URL query and halted at the failing
\* submodule add.
C1_Witness ==
    /\ Len(trace) >= 2
    /\ HaltedAt(Len(trace))
    /\ trace[Len(trace)] = Event("add llvm submodule", "nonzero")
    /\ \E i \in 1..Len(trace) : trace[i] = Event("query submodule url", "nonzero")

\* ------------------------------------------------------------ C2
DestructiveActs ==
    {"clone sbpf-linker", "clone rust compiler", "remove submodule metadata",
     "remove submodule worktree", "add llvm submodule", "write bootstrap.toml"}

\* C2: in a setup run that directly follows a successful setup run, with
\* no change of the environment in between and with the tools working as
\* they did, no clone, no submodule teardown or re-add and no write of the
\* compiler bootstrap config is performed, and the run, unless the operator
\* terminates it, ends with exit status zero.
C2_SecondSetupIdempotent ==
    (prev = [cmd |-> "setup", end |-> "ok"] /\ cmd = "setup" /\ ~faulted) =>
        /\ \A i \in 1..Len(trace) : trace[i].act \notin DestructiveActs
        /\ (pc = "done" /\ exit # "killed") => exit = "ok"

\* The second of two successive setup runs has completed.
C2_Witness ==
    /\ prev = [cmd |-> "setup", end |-> "ok"] /\ cmd = "setup"
    /\ pc = "done" /\ exit = "ok" /\ ~faulted
    /\ Succeeded("link rustup toolchain")

\* ------------------------------------------------------------ C3
\* C3: once the branch checkout that ends the reconciliation has succeeded
\* in a run, whatever URL the submodule had when the run observed it, the
\* configured URL is the required fork URL and the submodule work tree is
\* on branch BPF_i128_ret, and this stays so for the rest of the run.
C3_SubmoduleConverges ==
    Succeeded("checkout LLVM BPF_i128_ret branch") =>
        url = LLVM_REPO /\ subBranch = LLVM_BRANCH

\* The reconciliation completed for a submodule that pointed elsewhere.
C3_Witness ==
    /\ Succeeded("checkout LLVM BPF_i128_ret branch")
    /\ llvm_submodule_url = "https://github.com/rust-lang/llvm-project.git"
    /\ Succeeded("add llvm submodule")

\* ------------------------------------------------------------ C4
\* C4: if rust-compiler/bootstrap.toml existed when a run of any subcommand
\* started, its content is, at every point of the run and after it
\* (success, abort or termination), the content it had at the start.
C4_BootstrapPreserved ==
    (pc # "idle" /\ snap.bootstrap # "absent") => bootstrap = snap.bootstrap

\* A setup run over a hand-edited bootstrap.toml has completed.
C4_Witness ==
    /\ pc = "done" /\ exit = "ok" /\ cmd = "setup"
    /\ snap.bootstrap = "user" /\ bootstrap = "user"

\* ------------------------------------------------------------ C5
\* The config the run found was generated for another linker path.
StaleAtStart ==
    /\ snap.cargoConfig.kind = "generated"
    /\ snap.cargoConfig.linker # linker_bin(cacheRoot)

\* C5 (as stated): after any run of the linker stage (completed or
\* aborted) that found a config generated by an earlier run for a
\* different linker path, .cargo/config.toml embeds the path computed on
\* this run.
C5_ConfigCurrentAfterAnyRun ==
    (cmd \in LinkerCommands /\ pc = "done" /\ exit \in {"ok", "fail"} /\ StaleAtStart) =>
        cargoConfig = config_content(linker_bin(cacheRoot))

\* C5 (amended): once the linker stage of a run has written the config
\* (its clone, if any, and its build having succeeded), .cargo/config.toml
\* embeds the linker path computed on this run, whatever the file held.
C5_ConfigCurrentAfterWrite ==
    Succeeded("write .cargo/config.toml") =>
        cargoConfig = config_content(linker_bin(cacheRoot))

\* The linker stage rewrote a config generated for another path.
C5_Witness ==
    /\ Succeeded("write .cargo/config.toml") /\ StaleAtStart
    /\ cargoConfig.linker = linker_bin(cacheRoot)

\* ------------------------------------------------------------ C6
\* The child processes of the compiler stage.
CompilerStageActs ==
    {"clone rust compiler", "query submodule url", "add llvm submodule",
     "update llvm submodule", "checkout LLVM BPF_i128_ret branch",
     "stage llvm submodule", "diff staged", "commit llvm submodule update",
     "build rust compiler", "link rustup toolchain"}

\* C6: in a setup run every child process of the compiler stage, the
\* compiler build included, is started only after the linker build of the
\* same run has exited zero.
C6_CompilerAfterLinkerBuild ==
    cmd = "setup" =>
        \A i \in 1..Len(trace) :
            trace[i].act \in CompilerStageActs =>
                \E j \in 1..(i - 1) : trace[j] = Event("build sbpf-linker", "ok")

\* A setup run has started the compiler build.
C6_Witness == cmd = "setup" /\ Performed("build rust compiler")

\* ------------------------------------------------------------ C7
LinkerStageActs ==
    <<"create cache dir", "clone sbpf-linker", "build sbpf-linker", "create .cargo dir",
      "write .cargo/config.toml">>
ReconcileA == <<"update llvm submodule">>
ReconcileB == <<"remove submodule worktree", "add llvm submodule", "update llvm submodule">>
CompilerHead == <<"create cache dir", "clone rust compiler", "query submodule url">>
CheckoutAndStage ==
    <<"checkout LLVM BPF_i128_ret branch", "stage llvm submodule", "diff staged">>
CompilerTail == <<"write bootstrap.toml", "build rust compiler", "link rustup toolchain">>

\* The orders of external actions of a setup run on an empty cache: State A
\* or State B, with or without the commit.
FreshSetupOrders ==
    { LinkerStageActs \o CompilerHead \o r \o CheckoutAndStage \o c \o CompilerTail :
        r \in {ReconcileA, ReconcileB}, c \in {<<>>, <<"commit llvm submodule update">>} }

\* C7: a setup run that started without a cache directory, in which no
\* tool and no filesystem call failed and which the operator did not
\* terminate, ends with exit status zero, having performed exactly: cache
\* directory created, linker cloned, linker built, .cargo/config.toml
\* written, compiler cloned, submodule reconciled (State A or B, then
\* checkout, staging, commit if needed), bootstrap.toml written, compiler
\* built, toolchain linked, in this order; the linker checkout is on its
\* required branch, the config embeds the linker binary's path, the
\* submodule is on the fork and branch, and stage1 is registered.
C7_FreshSetupEndToEnd ==
    (cmd = "setup" /\ snap.fresh /\ pc = "done" /\ exit # "killed" /\ ~faulted) =>
        /\ exit = "ok"
        /\ Acts(trace) \in FreshSetupOrders
        /\ \A i \in 1..Len(trace) : trace[i].rc = "ok" \/ trace[i].act \in UncheckedActs
        /\ cacheDir
        /\ linkerDir = "complete" /\ linkerBranch = LINKER_BRANCH
        /\ cargoConfig = config_content(linker_bin(cacheRoot))
        /\ rustDir = "complete" /\ rustBranch = RUST_BRANCH
        /\ url = LLVM_REPO /\ subBranch = LLVM_BRANCH
        /\ snap.bootstrap = "absent" /\ bootstrap = "generated"
        /\ TOOLCHAIN_NAME \in toolchains

\* A setup run on an empty cache has completed through State B.
C7_Witness ==
    /\ cmd = "setup" /\ snap.fresh /\ pc = "done" /\ exit = "ok" /\ ~faulted
    /\ Performed("add llvm submodule")

\* ------------------------------------------------------------ C8
\* C8: a run of the same subcommand that directly follows a run terminated
\* in the middle of a clone, in which no tool fails that could have
\* succeeded and which is not itself terminated, ends with exit status
\* zero and with the checkouts of its stages complete on their required
\* branches.
C8_ResumeAfterTermination ==
    (/\ prev = [cmd |-> cmd, end |-> "killed in clone"]
     /\ pc = "done" /\ exit # "killed" /\ ~faulted) =>
        /\ exit = "ok"
        /\ cmd \in LinkerCommands =>
               linkerDir = "complete" /\ linkerBranch = LINKER_BRANCH
        /\ cmd \in CompilerCommands =>
               rustDir = "complete" /\ rustBranch = RUST_BRANCH

\* ------------------------------------------------------------ C9
\* C9: a compiler-stage run that directly follows a run aborted by a
\* failing reconciliation step, and that ends with exit status zero, ends
\* with the submodule's configured URL equal to the fork URL, the submodule
\* on branch BPF_i128_ret, and the submodule pointer of the work tree
\* committed in the outer repository with nothing left staged.
C9_ReentryAfterAbort ==
    (/\ prev.end = "fail in reconcile" /\ cmd \in CompilerCommands
     /\ pc = "done" /\ exit = "ok") =>
        /\ url = LLVM_REPO /\ subBranch = LLVM_BRANCH
        /\ headPtr = subCommit /\ ~StagedDiff

\* A compiler-stage run completed after a run that aborted in the add,
\* leaving a partial submodule clone behind.
C9_Witness ==
    /\ prev = [cmd |-> "build-compiler", end |-> "fail in reconcile"]
    /\ cmd = "build-compiler" /\ pc = "done" /\ exit = "ok"
    /\ Succeeded("remove submodule metadata") /\ Succeeded("add llvm submodule")

\* ------------------------------------------------------------ C10
\* One step of the process at the linker clone check.
LinkerCloneStep ==
    (pc = "l_clone" /\ pc' # "l_clone" /\ exit' # "killed") =>
        IF linkerDir = "absent"
          THEN /\ Acts(trace') = Append(Acts(trace), "clone sbpf-linker")
               /\ LastRc' # "ok" => (pc' = "done" /\ exit' = "fail")
          ELSE trace' = trace /\ linkerDisk' = linkerDisk /\ pc' = "l_build"

\* One step of the process at the compiler clone check.
CompilerCloneStep ==
    (pc = "c_clone" /\ pc' # "c_clone" /\ exit' # "killed") =>
        IF rustDir = "absent"
          THEN /\ Acts(trace') = Append(Acts(trace), "clone rust compiler")
               /\ LastRc' # "ok" => (pc' = "done" /\ exit' = "fail")
          ELSE trace' = trace /\ rustDisk' = rustDisk /\ pc' = "c_url"

\* A failed clone is the last external action of its run.
FailedCloneIsLast ==
    \A i \in 1..Len(trace) :
        (trace[i].act \in {"clone sbpf-linker", "clone rust compiler"} /\ trace[i].rc # "ok")
            => (i = Len(trace) /\ pc = "done")

\* C10: for each repository, the step at the existence check starts the
\* clone exactly when the checkout directory is absent; when the directory
\* exists the step starts no process, leaves the checkout as it is and the
\* stage goes on to what follows a successful clone; a clone that fails
\* aborts the run, so the build of that repository is never started.
C10_CloneIffAbsent ==
    /\ [][LinkerCloneStep /\ CompilerCloneStep]_vars
    /\ []FailedCloneIsLast

\* The linker stage went on to the build over a directory it did not
\* clone and that holds no complete checkout.
C10_Witness ==
    /\ ~Performed("clone sbpf-linker") /\ Performed("build sbpf-linker")
    /\ linkerDir = "partial"

\* ------------------------------------------------------------ C11
\* The run observed the required fork URL and took State A.
TookStateA == Performed("query submodule url") /\ llvm_submodule_url = LLVM_REPO

TeardownActs ==
    {"remove submodule metadata", "remove submodule worktree", "add llvm submodule"}

\* In State A the checkout directly follows the update, which directly
\* follows the URL query.
OnlyUpdateBeforeCheckout ==
    \A i \in 1..Len(trace) :
        trace[i].act = "checkout LLVM BPF_i128_ret branch" =>
            /\ i > 2
            /\ trace[i - 1].act = "update llvm submodule"
            /\ trace[i - 2].act = "query submodule url"

\* A step of a run in State A removes neither submodule directory.
StateAKeepsDirs ==
    (TookStateA /\ Running) =>
        /\ modulesDir => modulesDir'
        /\ llvmDir # "absent" => llvmDir' # "absent"

\* C11: in a run that observed the required fork URL, neither the
\* submodule metadata directory nor the submodule work tree is removed, no
\* submodule add is started, and the only process between the URL query
\* and the branch checkout is the recursive update.
C11_StateALeavesSubmodule ==
    /\ [](TookStateA =>
            /\ \A i \in 1..Len(trace) : trace[i].act \notin TeardownActs
            /\ OnlyUpdateBeforeCheckout)
    /\ [][StateAKeepsDirs]_vars

\* State A reached the checkout over an initialised submodule.
C11_Witness ==
    /\ TookStateA /\ Succeeded("checkout LLVM BPF_i128_ret branch")
    /\ snap.bootstrap # "absent" /\ modulesDir /\ llvmDir = "complete"

\* ------------------------------------------------------------ C12
\* The external actions of the run that follow the URL query, up to and
\* including the i-th.
AfterQuery(i) ==
    LET q == CHOOSE k \in 1..Len(trace) : trace[k].act = "query submodule url"
    IN  SubSeq(Acts(trace), q + 1, i)

\* The orders in which a reconciliation reaches the checkout: State A, or
\* State B with each removal present or not.
ReconcileOrders ==
    { m \o w \o a \o <<"update llvm submodule", "checkout LLVM BPF_i128_ret branch">> :
        m \in {<<>>, <<"remove submodule metadata">>},
        w \in {<<>>, <<"remove submodule worktree">>},
        a \in {<<"add llvm submodule">>} }
    \cup {ReconcileA \o <<"checkout LLVM BPF_i128_ret branch">>}

\* Each removal of State B is performed exactly when its directory exists.
RemovalIffPresent ==
    /\ (pc = "c_rm_modules" /\ pc' = "c_rm_llvm") =>
           (modulesDir <=> Acts(trace') = Append(Acts(trace), "remove submodule metadata"))
    /\ (pc = "c_rm_modules" /\ pc' = "c_rm_llvm" /\ ~modulesDir) => trace' = trace
    /\ (pc = "c_rm_llvm" /\ pc' = "c_add") =>
           (llvmDir # "absent" <=>
                Acts(trace') = Append(Acts(trace), "remove submodule worktree"))
    /\ (pc = "c_rm_llvm" /\ pc' = "c_add" /\ llvmDir = "absent") => trace' = trace

\* C12: in every run the actions from the URL query to the branch checkout
\* are, in order: in State B the removal of the metadata directory if
\* present, the removal of the work tree if present and the submodule add
\* at the fork URL, then in both states the recursive update, then the
\* force-checkout of BPF_i128_ret; State A performs no removal and no add;
\* the checkout is performed at most once, and the staging is performed
\* only directly after the successful checkout.
C12_ReconcileOrder ==
    /\ [](\A i \in 1..Len(trace) :
            /\ trace[i].act = "checkout LLVM BPF_i128_ret branch" =>
                   /\ AfterQuery(i) \in ReconcileOrders
                   /\ TookStateA <=> AfterQuery(i) = ReconcileA \o
                                        <<"checkout LLVM BPF_i128_ret branch">>
            /\ trace[i].act = "stage llvm submodule" =>
                   /\ i > 1
                   /\ trace[i - 1] = Event("checkout LLVM BPF_i128_ret branch", "ok")
            /\ trace[i].act = "add llvm submodule" =>
                   \A j \in 1..Len(trace) : trace[j].act = "update llvm submodule" => j > i)
    /\ [][RemovalIffPresent]_vars

\* State B removed both directories, re-added, updated, checked out and
\* staged.
C12_Witness ==
    /\ Succeeded("remove submodule metadata") /\ Succeeded("remove submodule worktree")
    /\ Succeeded("add llvm submodule") /\ Succeeded("stage llvm submodule")

\* ------------------------------------------------------------ C13
\* The commit step has turned the staged change into a commit.
CommitCreated == pc = "c_commit" /\ pc' = "c_cfg"

\* C13 (as stated): the commit command is about to be invoked only when the
\* index has a staged diff against the last commit, and once the step is
\* over and the run is at the compiler build the index has no staged diff.
C13_CommitOnlyOnStagedDiff ==
    /\ pc = "c_commit" => StagedDiff
    /\ pc = "c_cfg" => ~StagedDiff

\* The staged-diff check of the run that was performed last, if it was the
\* last external action.
DiffExit == IF LastAct = "diff staged" THEN LastRc ELSE ""

\* One step of the commit-if-needed logic, decided by the exit status of
\* the staged-diff check.
CommitStep ==
    /\ (pc = "c_diff" /\ StagedDiff /\ pc' # "done") => pc' = "c_commit"
    /\ (pc = "c_diff" /\ pc' = "c_cfg") => ~StagedDiff /\ DiffExit' = "ok"
    /\ (pc = "c_diff" /\ pc' = "c_commit") => DiffExit' = "nonzero"
    /\ CommitCreated =>
           /\ StagedDiff /\ ~StagedDiff'
           /\ trace' = Append(trace, Event("commit llvm submodule update", "ok"))
    /\ (pc = "c_commit" /\ ~StagedDiff /\ pc' # pc) => pc' = "done" /\ exit' # "ok"

\* C13 (amended): the commit command is invoked exactly when the
\* staged-diff check exits nonzero, which it does whenever the index has a
\* staged diff and also when the check itself fails; a commit with the
\* marker message is created only when the index has a staged diff, and a
\* commit command invoked without one ends the run; when the check exits
\* zero there is no staged diff, no commit command is invoked and the stage
\* continues to the compiler build; once the step is over the index has no
\* staged diff against the last commit.
C13_CommitOnNonzeroDiffExit ==
    /\ [](/\ pc = "c_commit" => DiffExit = "nonzero"
          /\ DiffExit = "ok" => pc # "c_commit" /\ ~StagedDiff
          /\ pc = "c_cfg" => ~StagedDiff
          /\ \A i \in 1..Len(trace) :
                trace[i].act = "commit llvm submodule update" =>
                    /\ i > 1
                    /\ trace[i - 1] = Event("diff staged", "nonzero"))
    /\ [][CommitStep]_vars

\* A staged pointer change was committed and the run went on to the build.
C13_Witness ==
    /\ Succeeded("commit llvm submodule update") /\ ~StagedDiff
    /\ Performed("build rust compiler")

\* ------------------------------------------------------------ C14
\* The external actions of the linker stage that the compiler stage does
\* not share (both create the cache directory).
LinkerOnlyActs ==
    {"clone sbpf-linker", "build sbpf-linker", "create .cargo dir",
     "write .cargo/config.toml"}

\* The external actions a run of each subcommand may perform.
AllowedActs ==
    CASE cmd = "build-linker" -> LinkerOnlyActs \cup {"create cache dir"}
      [] cmd = "build-compiler" ->
             CompilerStageActs \cup
             {"create cache dir", "remove submodule metadata",
              "remove submodule worktree", "write bootstrap.toml"}
      [] cmd = "build" -> {"build project"}
      [] OTHER -> {trace[i].act : i \in 1..Len(trace)}

\* What a step of a run of each subcommand leaves alone on disk.
IsolationFrame ==
    /\ (Running /\ cmd = "build-linker") => UNCHANGED <<rustDisk, toolchains>>
    /\ (Running /\ cmd = "build-compiler") => UNCHANGED <<linkerDisk, cargoConfig>>
    /\ (Running /\ cmd = "build") =>
           UNCHANGED <<cacheDir, linkerDisk, cargoConfig, rustDisk, toolchains>>

\* C14: a build-linker run performs only linker-stage actions, never
\* queries the compiler checkout and leaves the compiler checkout, its
\* bootstrap config and the toolchain registry as they are; a
\* build-compiler run performs no linker clone or build, no .cargo
\* directory creation and no config write and leaves the linker checkout
\* and .cargo/config.toml as they are; a build run performs only the
\* downstream build command and changes nothing of the cache, the
\* checkouts, the configs or the toolchain registry.
C14_SubcommandIsolation ==
    /\ [](/\ \A i \in 1..Len(trace) : trace[i].act \in AllowedActs
          /\ cmd = "build-linker" => llvm_submodule_url = "")
    /\ [][IsolationFrame]_vars

\* A build-linker run ended with exit status zero beside a complete
\* compiler checkout and a registered toolchain.
C14_Witness ==
    /\ cmd = "build-linker" /\ exit = "ok" /\ Succeeded("write .cargo/config.toml")
    /\ rustDir = "complete" /\ bootstrap # "absent" /\ TOOLCHAIN_NAME \in toolchains

\* ------------------------------------------------------------ C15
\* C15 (as stated): whenever a run has ended with a fatal error, the error
\* carries a description of the action that failed: the label of the
\* process for a process failure, a context text for a filesystem failure.
C15_EveryFatalErrorDescribed ==
    exit = "fail" =>
        /\ err[1] # ""
        /\ LastRc \in {"nonzero", "nospawn"} /\ LastAct \notin UncheckedActs =>
               err[2] = LastAct

\* ------------------------------------------------------------ C16
\* The program points in the order in which main and the two stages reach
\* them (State A and State B are alternatives).
PcOrder ==
    <<"l_mkdir", "l_clone", "l_build", "l_mkcargo", "l_write", "c_mkdir", "c_clone",
      "c_url", "c_updateA", "c_rm_modules", "c_rm_llvm", "c_add", "c_updateB",
      "c_checkout", "c_stage", "c_diff", "c_commit", "c_cfg", "c_build", "c_link",
      "b_build", "exit_ok", "done">>

Rank(p) == CHOOSE i \in 1..Len(PcOrder) : PcOrder[i] = p

\* The steps of the program itself, as opposed to those of the operator.
ProgramStep ==
    \/ main_ok
    \/ setup_linker_mkdir \/ setup_linker_clone \/ setup_linker_build
    \/ setup_linker_mkcargo \/ setup_linker_write
    \/ setup_compiler_mkdir \/ setup_compiler_clone \/ setup_compiler_url
    \/ setup_compiler_updateA \/ setup_compiler_rm_modules \/ setup_compiler_rm_llvm
    \/ setup_compiler_add \/ setup_compiler_updateB \/ setup_compiler_checkout
    \/ setup_compiler_stage \/ setup_compiler_diff \/ setup_compiler_commit
    \/ setup_compiler_cfg \/ setup_compiler_build \/ setup_compiler_link
    \/ build_project

\* The external action was taken as a failure by the code.
Failed(e) ==
    \/ e.rc \in {"nospawn", "ioerr"}
    \/ e.rc = "nonzero" /\ e.act \notin UncheckedActs

\* Every step of a run moves forward in PcOrder and adds at most one
\* external action; a run that has ended does nothing more.
RunAdvances ==
    /\ Running =>
           /\ Rank(pc') > Rank(pc)
           /\ \/ trace' = trace
              \/ /\ Len(trace') = Len(trace) + 1
                 /\ SubSeq(trace', 1, Len(trace)) = trace
    /\ pc = "done" => pc' \in {"idle"} \cup {FirstStep(c) : c \in Commands}

\* C16: every step of a run moves strictly forward through the finitely
\* many program points, so a run takes at most as many steps as there are
\* program points, and a running program always has a next step; no
\* labeled external action occurs twice in a run (only the creation of the
\* cache directory, which both stages of setup perform); and an external
\* action that failed is the last one of its run, which has ended with
\* failure status.
C16_NoRetryTerminates ==
    /\ [](/\ Running => ENABLED ProgramStep
          /\ Len(trace) < Len(PcOrder)
          /\ \A i, j \in 1..Len(trace) :
                (i < j /\ trace[i].act = trace[j].act) =>
                    trace[i].act = "create cache dir"
          /\ \A i \in 1..Len(trace) : Failed(trace[i]) => HaltedAt(i))
    /\ [][RunAdvances]_vars

\* A State B run ended by the failed compiler build after the actions
\* before it succeeded.
C16_Witness ==
    /\ trace # <<>> /\ LastAct = "build rust compiler" /\ LastRc = "nonzero"
    /\ pc = "done" /\ exit = "fail" /\ Succeeded("add llvm submodule")

\* ------------------------------------------------------------ C17
\* C17: in every run the write of .cargo/config.toml comes after a linker
\* build of the same run that exited zero, and as long as a run has not
\* reached the write, a run whose linker clone or linker build failed
\* included, .cargo/config.toml is what it was when the run started:
\* absent if it was absent, with the same content if it existed.
C17_ConfigOnlyAfterLinkerBuild ==
    /\ \A i \in 1..Len(trace) :
          trace[i].act = "write .cargo/config.toml" =>
              \E j \in 1..(i - 1) : trace[j] = Event("build sbpf-linker", "ok")
    /\ (cmd \in Commands /\ ~Performed("write .cargo/config.toml")) =>
           cargoConfig = snap.cargoConfig
    /\ \A i \in 1..Len(trace) :
          (trace[i].act \in {"clone sbpf-linker", "build sbpf-linker"}
               /\ trace[i].rc # "ok") =>
              ~Performed("write .cargo/config.toml") /\ cargoConfig = snap.cargoConfig

\* The linker build failed in a run that started with a generated config.
C17_Witness ==
    /\ LastAct = "build sbpf-linker" /\ LastRc = "nonzero" /\ exit = "fail"
    /\ snap.cargoConfig # NoConfig /\ cargoConfig = snap.cargoConfig

\* ------------------------------------------------------------ C18
\* The step that performs the URL query: the state is chosen by the text
\* obtained, and a nonzero exit is a text that is not the fork URL.
UrlQueryStep ==
    (pc = "c_url" /\ trace' # trace /\ LastRc' \in {"ok", "nonzero"}) =>
        /\ exit' = exit /\ err' = err
        /\ pc' = IF llvm_submodule_url' = LLVM_REPO THEN "c_updateA" ELSE "c_rm_modules"
        /\ LastRc' = "nonzero" => llvm_submodule_url' = ""
        /\ LastRc' = "ok" => llvm_submodule_url' = url

\* Every external action that follows a URL query whose text is not the
\* fork URL starts with the teardown of State B.
StateBFollows ==
    \A i \in 1..Len(trace) :
        (trace[i].act = "query submodule url" /\ trace[i].rc # "nospawn"
             /\ llvm_submodule_url # LLVM_REPO) =>
            /\ ~HaltedAt(i)
            /\ i < Len(trace) => trace[i + 1].act \in TeardownActs
            /\ Performed("update llvm submodule") => Succeeded("add llvm submodule")

\* C18: the state is chosen by the text the URL query returned and by
\* nothing else; a query that exited nonzero, or that returned no text, is
\* not a fatal error: the run goes on in State B, where it removes the
\* submodule metadata directory and the work tree exactly when they exist
\* and then re-adds the submodule before it updates it.
C18_FailedQueryTakesStateB ==
    /\ []StateBFollows
    /\ [][UrlQueryStep /\ RemovalIffPresent]_vars

\* A URL query exited nonzero and the run removed the work tree and
\* re-added the submodule.
C18_Witness ==
    /\ \E i \in 1..Len(trace) : trace[i] = Event("query submodule url", "nonzero")
    /\ Succeeded("remove submodule worktree") /\ Succeeded("add llvm submodule")
====
